---- MODULE Spec2Model ----
(***************************************************************************)
(* BAC Analyzer: the authorization comparison engine.                      *)
(*   bac-analyzer/matrix_validator.py      is_allowed, compare             *)
(*   bac-analyzer/requester.py             call_api                        *)
(*   bac-analyzer/analyzer.py              status_to_result, run_checks    *)
(*   bac-analyzer/differential_analyzer.py is_success, compare_roles,      *)
(*                                         run_differential_analysis       *)
(* Python dicts keep insertion order and have unique keys: a dict is       *)
(* modelled as a sequence of entries with pairwise distinct keys.          *)
(***************************************************************************)
EXTENDS Integers, Sequences, FiniteSets

\* ------------------------------------------------------------------ bounds
\* Largest status code handed to the classification.
MaxStatus == 599
\* Longest role->status map handed to compare_roles on its own.
MaxMapRoles == 3
\* Longest credential set and longest catalog of a differential run.
MaxDiffRoles == 2
MaxDiffEndpoints == 2
\* Longest credential set, most roles in the matrix and most (role, endpoint)
\* declarations in the matrix of a matrix-check run.
MaxTokens == 2
MaxMatrixRoles == 2
MaxDeclared == 3

\* ------------------------------------------------------- generic helpers
\* Sequences over S of length at most n with pairwise distinct elements.
DistinctSeqs(S, n) ==
  {s \in UNION {[1..k -> S] : k \in 0..n} :
     \A i, j \in 1..Len(s) : i # j => s[i] # s[j]}

\* The dict holding keys[i] -> vals[i], inserted in that order.
Dict(keys, vals) ==
  [i \in 1..Len(keys) |-> [key |-> keys[i], val |-> vals[i]]]

\* The keys of a dict, in insertion order.
Keys(d) == [i \in 1..Len(d) |-> d[i].key]

\* key in d
HasKey(d, k) == \E i \in 1..Len(d) : d[i].key = k

\* d[k] for a key the dict holds
Get(d, k) == d[CHOOSE i \in 1..Len(d) : d[i].key = k].val

\* d[k] = v: a new key is appended, an existing key keeps its position.
Put(d, k, v) ==
  IF HasKey(d, k)
    THEN [i \in 1..Len(d) |-> IF d[i].key = k THEN [key |-> k, val |-> v] ELSE d[i]]
    ELSE Append(d, [key |-> k, val |-> v])

\* --------------------------------------------------- matrix_validator.py
is_allowed(status_code) == status_code < 400

compare_negated(expected, actual) == expected # actual

compare(expected, actual) == expected = actual

\* ------------------------------------------------------------ analyzer.py
status_to_result(status_code) ==
  IF is_allowed(status_code) THEN "allow" ELSE "deny"

\* ---------------------------------------------------------- requester.py
\* What requests.request does for one call: it returns a response carrying a
\* status code, or raises requests.RequestException (status_code unused).
RequestException == [kind |-> "RequestException", status_code |-> -1]

Response(sc) == [kind |-> "response", status_code |-> sc]

call_api(attempt) ==
  IF attempt.kind = "RequestException" THEN 0 ELSE attempt.status_code

\* ------------------------------------------------- differential_analyzer.py
is_success(status_code) == status_code < 400

\* The closure make_finding of compare_roles; endpoint is the catalog entry
\* of endpoint_name, role_statuses the endpoint's role -> status dict.
make_finding(endpoint_name, endpoint, role_statuses, roles_compared, severity, reason) ==
  [type |-> "differential_access",
   endpoint |-> endpoint_name,
   method |-> endpoint.method,
   url |-> endpoint.url,
   roles_compared |-> roles_compared,
   status_codes |-> [i \in 1..Len(roles_compared) |->
                       [key |-> roles_compared[i],
                        val |-> Get(role_statuses, roles_compared[i])]],
   severity |-> severity,
   reason |-> reason]

\* Rule 3 (suspicious equality) with the test for the literal 200 left out.
SuspiciousEquality_any_success(endpoint_name, endpoint, role_statuses) ==
  IF /\ Len(role_statuses) > 0
     /\ \A i \in 1..Len(role_statuses) : is_success(role_statuses[i].val)
    THEN <<make_finding(endpoint_name, endpoint, role_statuses, Keys(role_statuses),
                        "medium", "All roles have identical access")>>
    ELSE <<>>

\* Rule 3 - suspicious equality: all roles return 200.
SuspiciousEquality(endpoint_name, endpoint, role_statuses) ==
  IF /\ Len(role_statuses) > 0
     /\ \A i \in 1..Len(role_statuses) :
          is_success(role_statuses[i].val) /\ role_statuses[i].val = 200
    THEN <<make_finding(endpoint_name, endpoint, role_statuses, Keys(role_statuses),
                        "medium", "All roles have identical access")>>
    ELSE <<>>

\* Rules 2 and 1 with rule 1 comparing outcome classes, not status codes.
AdminVersusRole_same_class(endpoint_name, endpoint, role_statuses, admin_status, role) ==
  LET other_status == Get(role_statuses, role) IN
  IF ~is_success(admin_status) /\ is_success(other_status)
    THEN <<make_finding(endpoint_name, endpoint, role_statuses, <<"admin", role>>,
                        "critical", "Inverted privilege hierarchy")>>
  ELSE IF is_success(admin_status) /\ is_success(other_status)
    THEN <<make_finding(endpoint_name, endpoint, role_statuses, <<"admin", role>>,
                        "high", "Lower privilege role has same access as admin")>>
  ELSE <<>>

\* One iteration of the loop over the non-admin roles: rule 2 (inverted
\* privilege), else rule 1 (same access).
AdminVersusRole(endpoint_name, endpoint, role_statuses, admin_status, role) ==
  LET other_status == Get(role_statuses, role) IN
  IF ~is_success(admin_status) /\ is_success(other_status)
    THEN <<make_finding(endpoint_name, endpoint, role_statuses, <<"admin", role>>,
                        "critical", "Inverted privilege hierarchy")>>
  ELSE IF is_success(admin_status) /\ admin_status = other_status
    THEN <<make_finding(endpoint_name, endpoint, role_statuses, <<"admin", role>>,
                        "high", "Lower privilege role has same access as admin")>>
  ELSE <<>>

\* The loop without "if role == 'admin': continue": admin is compared
\* against itself.
RECURSIVE AdminLoop_compares_self(_, _, _, _, _)
AdminLoop_compares_self(endpoint_name, endpoint, role_statuses, admin_status, i) ==
  IF i > Len(role_statuses) THEN <<>>
  ELSE AdminVersusRole(endpoint_name, endpoint, role_statuses, admin_status,
                       role_statuses[i].key)
       \o AdminLoop_compares_self(endpoint_name, endpoint, role_statuses, admin_status, i + 1)

\* The loop "for role in role_statuses", from the i-th role on.
RECURSIVE AdminLoop(_, _, _, _, _)
AdminLoop(endpoint_name, endpoint, role_statuses, admin_status, i) ==
  IF i > Len(role_statuses) THEN <<>>
  ELSE LET role == role_statuses[i].key IN
       (IF role = "admin" THEN <<>>
        ELSE AdminVersusRole(endpoint_name, endpoint, role_statuses, admin_status, role))
       \o AdminLoop(endpoint_name, endpoint, role_statuses, admin_status, i + 1)

\* The admin gate tested by truthiness: a status of 0 counts as no admin.
AdminComparison_falsy_gate(endpoint_name, endpoint, role_statuses) ==
  IF ~HasKey(role_statuses, "admin") \/ Get(role_statuses, "admin") = 0 THEN <<>>
  ELSE AdminLoop(endpoint_name, endpoint, role_statuses, Get(role_statuses, "admin"), 1)

\* admin_status = role_statuses.get("admin"); None skips rules 1 and 2.
AdminComparison(endpoint_name, endpoint, role_statuses) ==
  IF ~HasKey(role_statuses, "admin") THEN <<>>
  ELSE AdminLoop(endpoint_name, endpoint, role_statuses, Get(role_statuses, "admin"), 1)

\* The rules made exclusive: once rule 3 has fired the admin comparison is
\* skipped.
EndpointFindings_exclusive(endpoint_name, role_statuses, catalog) ==
  IF ~HasKey(catalog, endpoint_name) THEN <<>>
  ELSE LET endpoint == Get(catalog, endpoint_name) IN
       IF SuspiciousEquality(endpoint_name, endpoint, role_statuses) # <<>>
         THEN SuspiciousEquality(endpoint_name, endpoint, role_statuses)
         ELSE AdminComparison(endpoint_name, endpoint, role_statuses)

\* The body of the loop over results.items() for one endpoint.
EndpointFindings(endpoint_name, role_statuses, catalog) ==
  IF ~HasKey(catalog, endpoint_name) THEN <<>>
  ELSE LET endpoint == Get(catalog, endpoint_name) IN
       SuspiciousEquality(endpoint_name, endpoint, role_statuses)
       \o AdminComparison(endpoint_name, endpoint, role_statuses)

RECURSIVE CompareLoop(_, _, _)
CompareLoop(res, catalog, i) ==
  IF i > Len(res) THEN <<>>
  ELSE EndpointFindings(res[i].key, res[i].val, catalog)
       \o CompareLoop(res, catalog, i + 1)

compare_roles(res, catalog) == CompareLoop(res, catalog, 1)

\* ------------------------------------------------------------------ state
VARIABLES
  pc,                 \* position of the running function
  status_code,        \* argument of status_to_result
  outcome,            \* value status_to_result returned
  tokens,             \* credential set: the roles of tokens.json, in order
  endpoints_by_name,  \* endpoint catalog: dict name -> endpoint
  matrix,             \* dict role -> dict endpoint name -> expected
  ri,                 \* run_checks / run_differential_analysis: role index
  ei,                 \* run_checks / run_differential_analysis: endpoint index
  mismatches,         \* run_checks: list of mismatch dicts
  results,            \* dict endpoint name -> dict role -> status code
  findings,           \* compare_roles: list of findings
  calls               \* history: the call_api invocations made so far

vars == <<pc, status_code, outcome, tokens, endpoints_by_name, matrix, ri, ei,
          mismatches, results, findings, calls>>

\* ------------------------------------------------- classification (pure)
InitClassify ==
  /\ pc = "classify"
  /\ status_code \in 0..MaxStatus
  /\ outcome = "none"
  /\ tokens = <<>>
  /\ endpoints_by_name = <<>>
  /\ matrix = <<>>
  /\ ri = 1
  /\ ei = 1
  /\ mismatches = <<>>
  /\ results = <<>>
  /\ findings = <<>>
  /\ calls = <<>>

StatusToResult ==
  /\ pc = "classify"
  /\ outcome' = status_to_result(status_code)
  /\ pc' = "done"
  /\ UNCHANGED <<status_code, tokens, endpoints_by_name, matrix, ri, ei,
                 mismatches, results, findings, calls>>

NextClassify == StatusToResult

SpecClassify == InitClassify /\ [][NextClassify]_vars

\* ------------------------------------------- compare_roles on its own
\* Role names and status codes of the role -> status maps handed to
\* compare_roles.
CompareRoleNames == {"admin", "manager", "user", "guest"}

CompareStatuses == {0, 200, 201, 399, 400, 403}

\* A catalog holding the named endpoints, as load_endpoints builds it.
CatalogOf(names) ==
  [i \in 1..Len(names) |->
     [key |-> names[i], val |-> [method |-> "GET", url |-> names[i]]]]

InitCompare ==
  /\ pc = "compare"
  /\ status_code = 0
  /\ outcome = "none"
  /\ tokens = <<>>
  /\ endpoints_by_name = CatalogOf(<<"ep1">>)
  /\ matrix = <<>>
  /\ ri = 1
  /\ ei = 1
  /\ mismatches = <<>>
  /\ \E rs \in DistinctSeqs(CompareRoleNames, MaxMapRoles) :
       \E st \in [1..Len(rs) -> CompareStatuses] :
         results = <<[key |-> "ep1", val |-> Dict(rs, st)]>>
  /\ findings = <<>>
  /\ calls = <<>>

\* findings = compare_roles(results, endpoints_by_name)
CompareRoles ==
  /\ pc = "compare"
  /\ findings' = compare_roles(results, endpoints_by_name)
  /\ pc' = "done"
  /\ UNCHANGED <<status_code, outcome, tokens, endpoints_by_name, matrix, ri, ei,
                 mismatches, results, calls>>

NextCompare == CompareRoles

SpecCompare == InitCompare /\ [][NextCompare]_vars

\* ------------------------------------------------------------ run_checks
CheckRoleNames == {"admin", "manager", "user"}

CheckEndpointNames == {"ep1", "ep2"}

\* What one HTTP call of a matrix-check run can do.
CheckAttempts == {Response(200), Response(403), RequestException}

\* A credential set holding the named roles, as load_tokens builds it; the
\* bearer token of a role is an opaque string.
TokensOf(roles) ==
  [i \in 1..Len(roles) |-> [key |-> roles[i], val |-> "token"]]

\* Every dict endpoint name -> expected outcome with at most n entries.
Expectations(n) ==
  UNION {{Dict(eps, ex) : ex \in [1..Len(eps) -> {"allow", "deny"}]} :
           eps \in DistinctSeqs(CheckEndpointNames, n)}

RECURSIVE Declared(_, _)
\* The number of (role, endpoint) declarations of the first k roles of m.
Declared(m, k) == IF k = 0 THEN 0 ELSE Len(m[k].val) + Declared(m, k - 1)

\* The order in which tokens.json lists the roles it holds and endpoints.yaml
\* the endpoints it holds. run_checks treats every role and every endpoint
\* alike, so the matrix alone ranges over all roles and endpoints in all
\* orders.
CheckRoleOrder == <<"admin", "manager", "user">>

CheckEndpointOrder == <<"ep1", "ep2">>

InitChecks ==
  /\ pc = "checks"
  /\ status_code = 0
  /\ outcome = "none"
  /\ \E n \in 0..MaxTokens :
       /\ n <= Len(CheckRoleOrder)
       /\ tokens = TokensOf(SubSeq(CheckRoleOrder, 1, n))
  /\ \E n \in 0..Len(CheckEndpointOrder) :
       endpoints_by_name = CatalogOf(SubSeq(CheckEndpointOrder, 1, n))
  /\ \E rs \in DistinctSeqs(CheckRoleNames, MaxMatrixRoles) :
       \E ex \in [1..Len(rs) -> Expectations(MaxDeclared)] :
         /\ matrix = [i \in 1..Len(rs) |-> [key |-> rs[i], val |-> ex[i]]]
         /\ Declared(matrix, Len(matrix)) <= MaxDeclared
  /\ ri = 1
  /\ ei = 1
  /\ mismatches = <<>>
  /\ results = <<>>
  /\ findings = <<>>
  /\ calls = <<>>

\* for role, token in tokens.items(): the role is not in the matrix.
ChecksSkipRole ==
  /\ pc = "checks"
  /\ ri <= Len(tokens)
  /\ ~HasKey(matrix, tokens[ri].key)
  /\ ri' = ri + 1
  /\ ei' = 1
  /\ UNCHANGED <<pc, status_code, outcome, tokens, endpoints_by_name, matrix,
                 mismatches, results, findings, calls>>

\* for endpoint_name, expected in role_expectations.items(): the endpoint is
\* not in the catalog.
ChecksSkipEndpoint ==
  /\ pc = "checks"
  /\ ri <= Len(tokens)
  /\ HasKey(matrix, tokens[ri].key)
  /\ LET role_expectations == Get(matrix, tokens[ri].key) IN
       /\ ei <= Len(role_expectations)
       /\ ~HasKey(endpoints_by_name, role_expectations[ei].key)
  /\ ei' = ei + 1
  /\ UNCHANGED <<pc, status_code, outcome, tokens, endpoints_by_name, matrix, ri,
                 mismatches, results, findings, calls>>

\* The inner loop body putting a new mismatch at the head of the list.
ChecksProbe_inserts_at_head ==
  /\ pc = "checks"
  /\ ri <= Len(tokens)
  /\ HasKey(matrix, tokens[ri].key)
  /\ LET role == tokens[ri].key
         role_expectations == Get(matrix, role)
     IN /\ ei <= Len(role_expectations)
        /\ HasKey(endpoints_by_name, role_expectations[ei].key)
        /\ \E attempt \in CheckAttempts :
             LET endpoint_name == role_expectations[ei].key
                 expected == role_expectations[ei].val
                 sc == call_api(attempt)
                 actual == status_to_result(sc)
             IN /\ calls' = Append(calls, [role |-> role, endpoint |-> endpoint_name,
                                           failed |-> attempt = RequestException,
                                           status |-> sc])
                /\ mismatches' =
                     IF ~compare(expected, actual)
                       THEN <<[role |-> role, endpoint |-> endpoint_name,
                               expected |-> expected, actual |-> actual,
                               status |-> sc]>> \o mismatches
                       ELSE mismatches
  /\ ei' = ei + 1
  /\ UNCHANGED <<pc, status_code, outcome, tokens, endpoints_by_name, matrix, ri,
                 results, findings>>

\* The rest of the inner loop body: call_api, status_to_result, compare and
\* the append of the mismatch.
ChecksProbe ==
  /\ pc = "checks"
  /\ ri <= Len(tokens)
  /\ HasKey(matrix, tokens[ri].key)
  /\ LET role == tokens[ri].key
         role_expectations == Get(matrix, role)
     IN /\ ei <= Len(role_expectations)
        /\ HasKey(endpoints_by_name, role_expectations[ei].key)
        /\ \E attempt \in CheckAttempts :
             LET endpoint_name == role_expectations[ei].key
                 expected == role_expectations[ei].val
                 sc == call_api(attempt)
                 actual == status_to_result(sc)
             IN /\ calls' = Append(calls, [role |-> role, endpoint |-> endpoint_name,
                                           failed |-> attempt = RequestException,
                                           status |-> sc])
                /\ mismatches' =
                     IF ~compare(expected, actual)
                       THEN Append(mismatches,
                                   [role |-> role, endpoint |-> endpoint_name,
                                    expected |-> expected, actual |-> actual,
                                    status |-> sc])
                       ELSE mismatches
  /\ ei' = ei + 1
  /\ UNCHANGED <<pc, status_code, outcome, tokens, endpoints_by_name, matrix, ri,
                 results, findings>>

\* The inner loop is exhausted: on to the next role.
ChecksNextRole ==
  /\ pc = "checks"
  /\ ri <= Len(tokens)
  /\ HasKey(matrix, tokens[ri].key)
  /\ ei > Len(Get(matrix, tokens[ri].key))
  /\ ri' = ri + 1
  /\ ei' = 1
  /\ UNCHANGED <<pc, status_code, outcome, tokens, endpoints_by_name, matrix,
                 mismatches, results, findings, calls>>

\* return mismatches
ChecksReturn ==
  /\ pc = "checks"
  /\ ri > Len(tokens)
  /\ pc' = "done"
  /\ UNCHANGED <<status_code, outcome, tokens, endpoints_by_name, matrix, ri, ei,
                 mismatches, results, findings, calls>>

NextChecks ==
  \/ ChecksSkipRole
  \/ ChecksSkipEndpoint
  \/ ChecksProbe
  \/ ChecksNextRole
  \/ ChecksReturn

SpecChecks == InitChecks /\ [][NextChecks]_vars

\* ------------------------------------------------------- main: the totals
\* The set of keys of a dict.
KeySet(d) == {d[i].key : i \in 1..Len(d)}

\* The roles counted without looking at the credential set.
roles_in_matrix_any_role == KeySet(matrix)

\* roles_in_matrix = set(matrix.keys()) & set(tokens.keys())
roles_in_matrix == KeySet(matrix) \cap KeySet(tokens)

\* endpoints_in_matrix: the endpoints of the expectations of every role of
\* the matrix.
endpoints_in_matrix == UNION {KeySet(matrix[k].val) : k \in 1..Len(matrix)}

\* endpoints_tested = endpoints_in_matrix & set(endpoints_by_name.keys())
endpoints_tested == endpoints_in_matrix \cap KeySet(endpoints_by_name)

\* sum(1 for ep in matrix[role] if ep in endpoints_by_name)
ChecksOfRole(role) ==
  Cardinality({j \in 1..Len(Get(matrix, role)) :
                 HasKey(endpoints_by_name, Get(matrix, role)[j].key)})

RECURSIVE SumOverRoles(_)
\* The outer "for role in roles_in_matrix" of the sum.
SumOverRoles(roles) ==
  IF roles = {} THEN 0
  ELSE LET role == CHOOSE r \in roles : TRUE
       IN ChecksOfRole(role) + SumOverRoles(roles \ {role})

\* total_checks
total_checks == SumOverRoles(roles_in_matrix)

\* ------------------------------------------- run_differential_analysis
DiffRoleNames == {"admin", "manager", "user"}

\* The order in which endpoints.yaml lists the endpoints it holds.
DiffEndpointOrder == <<"ep1", "ep2", "ep3">>

\* What one HTTP call of a differential run can do.
DiffAttempts == {Response(200), Response(403), RequestException}

\* run_differential_analysis takes no matrix; the one main has loaded
\* declares a single pair.
DiffMatrix == Dict(<<"admin">>, <<Dict(<<"ep1">>, <<"deny">>)>>)

InitDiff ==
  /\ pc = "diff_endpoints"
  /\ status_code = 0
  /\ outcome = "none"
  /\ \E roles \in DistinctSeqs(DiffRoleNames, MaxDiffRoles) : tokens = TokensOf(roles)
  /\ \E n \in 0..MaxDiffEndpoints :
       /\ n <= Len(DiffEndpointOrder)
       /\ endpoints_by_name = CatalogOf(SubSeq(DiffEndpointOrder, 1, n))
  /\ matrix = DiffMatrix
  /\ ri = 1
  /\ ei = 1
  /\ mismatches = <<>>
  /\ results = <<>>
  /\ findings = <<>>
  /\ calls = <<>>

\* for endpoint_name, endpoint in endpoints_by_name.items():
\*     results[endpoint_name] = {}
DiffBeginEndpoint ==
  /\ pc = "diff_endpoints"
  /\ ei <= Len(endpoints_by_name)
  /\ results' = Put(results, endpoints_by_name[ei].key, <<>>)
  /\ ri' = 1
  /\ pc' = "diff_roles"
  /\ UNCHANGED <<status_code, outcome, tokens, endpoints_by_name, matrix, ei,
                 mismatches, findings, calls>>

\* The probe that is made only for the roles the matrix declares.
DiffProbe_matrix_roles_only ==
  /\ pc = "diff_roles"
  /\ ri <= Len(tokens)
  /\ \E attempt \in DiffAttempts :
       LET endpoint_name == endpoints_by_name[ei].key
           role == tokens[ri].key
           sc == call_api(attempt)
       IN IF HasKey(matrix, role)
            THEN /\ calls' = Append(calls, [role |-> role, endpoint |-> endpoint_name,
                                            failed |-> attempt = RequestException,
                                            status |-> sc])
                 /\ results' = Put(results, endpoint_name,
                                   Put(Get(results, endpoint_name), role, sc))
            ELSE UNCHANGED <<calls, results>>
  /\ ri' = ri + 1
  /\ UNCHANGED <<pc, status_code, outcome, tokens, endpoints_by_name, matrix, ei,
                 mismatches, findings>>

\* for role, token in tokens.items():
\*     status_code = call_api(endpoint, token, proxies=proxies)
\*     results[endpoint_name][role] = status_code
DiffProbe ==
  /\ pc = "diff_roles"
  /\ ri <= Len(tokens)
  /\ \E attempt \in DiffAttempts :
       LET endpoint_name == endpoints_by_name[ei].key
           role == tokens[ri].key
           sc == call_api(attempt)
       IN /\ calls' = Append(calls, [role |-> role, endpoint |-> endpoint_name,
                                     failed |-> attempt = RequestException,
                                     status |-> sc])
          /\ results' = Put(results, endpoint_name,
                            Put(Get(results, endpoint_name), role, sc))
  /\ ri' = ri + 1
  /\ UNCHANGED <<pc, status_code, outcome, tokens, endpoints_by_name, matrix, ei,
                 mismatches, findings>>

\* The loop over the roles is exhausted: on to the next endpoint.
DiffEndEndpoint ==
  /\ pc = "diff_roles"
  /\ ri > Len(tokens)
  /\ ei' = ei + 1
  /\ pc' = "diff_endpoints"
  /\ UNCHANGED <<status_code, outcome, tokens, endpoints_by_name, matrix, ri,
                 mismatches, results, findings, calls>>

\* The loop over the endpoints is exhausted: print("Comparing roles...").
DiffCollected ==
  /\ pc = "diff_endpoints"
  /\ ei > Len(endpoints_by_name)
  /\ pc' = "compare"
  /\ UNCHANGED <<status_code, outcome, tokens, endpoints_by_name, matrix, ri, ei,
                 mismatches, results, findings, calls>>

NextDiff ==
  \/ DiffBeginEndpoint
  \/ DiffProbe
  \/ DiffEndEndpoint
  \/ DiffCollected
  \/ CompareRoles

SpecDiff == InitDiff /\ [][NextDiff]_vars

\* C1: for every status code s the classification is "allow" if s < 400 and
\* "deny" otherwise, and status 0 (the transport-failure sentinel) classifies
\* as "deny".
C1_ThresholdAndZeroDeny ==
  pc = "done" =>
    /\ outcome = (IF status_code < 400 THEN "allow" ELSE "deny")
    /\ status_code = 0 => outcome = "deny"

\* C2: classify(199) = deny, classify(200) = allow, classify(399) = allow,
\* classify(400) = deny, classify(0) = deny.
C2_BoundaryValues ==
  pc = "done" =>
    /\ status_code = 199 => outcome = "deny"
    /\ status_code = 200 => outcome = "allow"
    /\ status_code = 399 => outcome = "allow"
    /\ status_code = 400 => outcome = "deny"
    /\ status_code = 0 => outcome = "deny"

\* ---------------------------------------------- claims about compare_roles
\* The positions in findings of the findings of an endpoint with a severity.
WithSeverity(endpoint_name, severity) ==
  {i \in 1..Len(findings) :
     /\ findings[i].endpoint = endpoint_name
     /\ findings[i].severity = severity}

\* ... and with a roles-compared list.
WithSeverityAndRoles(endpoint_name, severity, roles_compared) ==
  {i \in WithSeverity(endpoint_name, severity) :
     findings[i].roles_compared = roles_compared}

AllExactly200(role_statuses) ==
  /\ Len(role_statuses) > 0
  /\ \A i \in 1..Len(role_statuses) : role_statuses[i].val = 200

\* C4: for every endpoint's role -> status map, a medium finding with reason
\* "All roles have identical access" is emitted exactly once if the map is
\* non-empty and all its status codes are exactly 200, its roles-compared
\* being the roles of the map in map order; otherwise no medium finding is
\* emitted for the endpoint.
C4_RuleA ==
  pc = "done" =>
    \A e \in 1..Len(results) :
      LET endpoint_name == results[e].key
          role_statuses == results[e].val
          medium == WithSeverity(endpoint_name, "medium")
      IN IF AllExactly200(role_statuses)
           THEN /\ Cardinality(medium) = 1
                /\ \A i \in medium :
                     /\ findings[i].reason = "All roles have identical access"
                     /\ findings[i].roles_compared = Keys(role_statuses)
           ELSE medium = {}

C4_Witness ==
  /\ pc = "done"
  /\ Len(results[1].val) = 3
  /\ AllExactly200(results[1].val)
  /\ WithSeverity("ep1", "medium") # {}

\* C5 as stated: {admin:200, manager:200, user:200} gives exactly one
\* finding, of severity medium, with roles-compared [admin, manager, user].
C5_ExactlyOneFinding ==
  (/\ pc = "done"
   /\ results[1].val = Dict(<<"admin", "manager", "user">>, <<200, 200, 200>>))
  => /\ Len(findings) = 1
     /\ findings[1].severity = "medium"
     /\ findings[1].roles_compared = <<"admin", "manager", "user">>

\* C5 amended: {admin:200, manager:200, user:200} gives three findings: one
\* of severity medium with roles-compared [admin, manager, user], then one
\* of severity high for [admin, manager] and one for [admin, user].
C5_OneMediumTwoHigh ==
  (/\ pc = "done"
   /\ results[1].val = Dict(<<"admin", "manager", "user">>, <<200, 200, 200>>))
  => /\ Len(findings) = 3
     /\ findings[1].severity = "medium"
     /\ findings[1].roles_compared = <<"admin", "manager", "user">>
     /\ findings[2].severity = "high"
     /\ findings[2].roles_compared = <<"admin", "manager">>
     /\ findings[3].severity = "high"
     /\ findings[3].roles_compared = <<"admin", "user">>

C5_Witness ==
  /\ pc = "done"
  /\ results[1].val = Dict(<<"admin", "manager", "user">>, <<200, 200, 200>>)
  /\ Len(findings) = 3

\* C6 as stated: {admin:200, manager:200} gives one finding, of severity
\* high, with roles-compared [admin, manager].
C6_OneFindingHigh ==
  (/\ pc = "done"
   /\ results[1].val = Dict(<<"admin", "manager">>, <<200, 200>>))
  => /\ Len(findings) = 1
     /\ findings[1].severity = "high"
     /\ findings[1].roles_compared = <<"admin", "manager">>

\* C6 amended: {admin:200, manager:200} gives two findings, both with
\* roles-compared [admin, manager]: one of severity medium, then exactly one
\* of severity high.
C6_MediumThenHigh ==
  (/\ pc = "done"
   /\ results[1].val = Dict(<<"admin", "manager">>, <<200, 200>>))
  => /\ Len(findings) = 2
     /\ findings[1].severity = "medium"
     /\ findings[1].roles_compared = <<"admin", "manager">>
     /\ findings[2].severity = "high"
     /\ findings[2].roles_compared = <<"admin", "manager">>

C6_Witness ==
  /\ pc = "done"
  /\ results[1].val = Dict(<<"admin", "manager">>, <<200, 200>>)
  /\ Cardinality(WithSeverity("ep1", "high")) = 1

\* C7: for every endpoint whose map holds admin and every other role r of
\* the map, a critical finding for [admin, r] is emitted (once) iff admin's
\* status is >= 400 and r's is < 400, a high finding for [admin, r] is
\* emitted (once) iff admin's status is < 400 and equals r's status, never
\* both; and {admin:403, manager:200} gives exactly one finding, critical,
\* for [admin, manager].
C7_RulesBAndC ==
  pc = "done" =>
    \A e \in 1..Len(results) :
      LET endpoint_name == results[e].key
          role_statuses == results[e].val
      IN /\ HasKey(role_statuses, "admin") =>
              \A k \in 1..Len(role_statuses) :
                LET r == role_statuses[k].key
                    other == role_statuses[k].val
                    admin == Get(role_statuses, "admin")
                    critical == WithSeverityAndRoles(endpoint_name, "critical", <<"admin", r>>)
                    high == WithSeverityAndRoles(endpoint_name, "high", <<"admin", r>>)
                IN r # "admin" =>
                     /\ Cardinality(critical) + Cardinality(high) <= 1
                     /\ Cardinality(critical) = 1 <=> (admin >= 400 /\ other < 400)
                     /\ Cardinality(high) = 1 <=> (admin < 400 /\ admin = other)
         /\ role_statuses = Dict(<<"admin", "manager">>, <<403, 200>>) =>
              /\ Len(findings) = 1
              /\ findings[1].severity = "critical"
              /\ findings[1].roles_compared = <<"admin", "manager">>

C7_Witness ==
  /\ pc = "done"
  /\ results[1].val = Dict(<<"admin", "manager">>, <<403, 200>>)
  /\ Len(findings) = 1
  /\ findings[1].severity = "critical"

\* C8: for every endpoint whose map has no key admin, no critical and no
\* high finding is emitted; and an admin entry of status 0 is present: each
\* other role r is still compared against it (critical iff 0 classifies as
\* failure and r's status as success, high iff 0 classifies as success and
\* r's status is 0).
C8_AdminGate ==
  pc = "done" =>
    \A e \in 1..Len(results) :
      LET endpoint_name == results[e].key
          role_statuses == results[e].val
      IN /\ ~HasKey(role_statuses, "admin") =>
              /\ WithSeverity(endpoint_name, "critical") = {}
              /\ WithSeverity(endpoint_name, "high") = {}
         /\ (HasKey(role_statuses, "admin") /\ Get(role_statuses, "admin") = 0) =>
              \A k \in 1..Len(role_statuses) :
                LET r == role_statuses[k].key
                    other == role_statuses[k].val
                IN r # "admin" =>
                     /\ WithSeverityAndRoles(endpoint_name, "critical", <<"admin", r>>) # {}
                          <=> (~is_success(0) /\ is_success(other))
                     /\ WithSeverityAndRoles(endpoint_name, "high", <<"admin", r>>) # {}
                          <=> (is_success(0) /\ other = 0)

\* An admin of status 0 has been compared against another role and produced
\* a finding.
C8_Witness ==
  /\ pc = "done"
  /\ HasKey(results[1].val, "admin")
  /\ Get(results[1].val, "admin") = 0
  /\ WithSeverity("ep1", "critical") \cup WithSeverity("ep1", "high") # {}

\* --------------------------------------------------- claims about run_checks
\* The spec's classification of a status code.
Classified(sc) == IF sc < 400 THEN "allow" ELSE "deny"

\* The role has a credential, the matrix declares the pair and the catalog
\* holds the endpoint.
JointlyPresent(role, endpoint_name) ==
  /\ HasKey(tokens, role)
  /\ HasKey(matrix, role)
  /\ HasKey(Get(matrix, role), endpoint_name)
  /\ HasKey(endpoints_by_name, endpoint_name)

\* The positions in mismatches / in calls of a (role, endpoint) pair.
MismatchesOf(role, endpoint_name) ==
  {i \in 1..Len(mismatches) :
     mismatches[i].role = role /\ mismatches[i].endpoint = endpoint_name}

CallsOf(role, endpoint_name) ==
  {i \in 1..Len(calls) : calls[i].role = role /\ calls[i].endpoint = endpoint_name}

\* C3: run_checks never stops before it returns; when it has returned, a
\* pair that is not jointly present in credentials, matrix and catalog has no
\* mismatch, and a jointly present pair has been probed once and has exactly
\* one mismatch, carrying role, endpoint, expected, the classified outcome
\* and the raw status, if the classification of the probed status differs
\* from the expected outcome, and none otherwise.
C3_MismatchIff ==
  /\ pc = "checks" => ENABLED NextChecks
  /\ pc = "done" =>
       \A role \in CheckRoleNames, endpoint_name \in CheckEndpointNames :
         IF JointlyPresent(role, endpoint_name)
           THEN /\ Cardinality(CallsOf(role, endpoint_name)) = 1
                /\ \A c \in CallsOf(role, endpoint_name) :
                     LET expected == Get(Get(matrix, role), endpoint_name)
                         sc == calls[c].status
                     IN IF Classified(sc) # expected
                          THEN /\ Cardinality(MismatchesOf(role, endpoint_name)) = 1
                               /\ \A i \in MismatchesOf(role, endpoint_name) :
                                    mismatches[i] =
                                      [role |-> role, endpoint |-> endpoint_name,
                                       expected |-> expected,
                                       actual |-> Classified(sc), status |-> sc]
                          ELSE MismatchesOf(role, endpoint_name) = {}
           ELSE MismatchesOf(role, endpoint_name) = {}

\* admin/ep1 expected allow answered 403: the mismatch of the spec's example,
\* next to a declared pair that was skipped.
C3_Witness ==
  /\ pc = "done"
  /\ \E i \in 1..Len(mismatches) :
       mismatches[i] = [role |-> "admin", endpoint |-> "ep1", expected |-> "allow",
                        actual |-> "deny", status |-> 403]
  /\ \E k \in 1..Len(matrix) : \E j \in 1..Len(matrix[k].val) :
       ~JointlyPresent(matrix[k].key, matrix[k].val[j].key)

\* C9: a probe whose network call fails yields status 0, which classifies
\* as deny; run_checks goes on to the remaining pairs and returns; and a
\* failed probe has a mismatch of status 0 iff the expectation was allow.
C9_FailedProbeIsDeny ==
  /\ pc = "checks" => ENABLED NextChecks
  /\ \A c \in 1..Len(calls) :
       calls[c].failed =>
         /\ calls[c].status = 0
         /\ status_to_result(calls[c].status) = "deny"
         /\ pc = "done" =>
              ((\E i \in MismatchesOf(calls[c].role, calls[c].endpoint) :
                  mismatches[i].status = 0)
               <=> Get(Get(matrix, calls[c].role), calls[c].endpoint) = "allow")

\* ------------------------------------- claims about run_differential_analysis
\* C10: call_api is invoked for pairs of catalog x credential set only and
\* never twice for a pair; when compare_roles is about to run (and after),
\* it has been invoked exactly once for every pair, whatever the matrix
\* holds, and every endpoint's role -> status map holds the status returned
\* for every role of the credential set.
C10_AllPairsProbedBeforeCompare ==
  /\ \A c \in 1..Len(calls) :
       /\ HasKey(endpoints_by_name, calls[c].endpoint)
       /\ HasKey(tokens, calls[c].role)
       /\ Cardinality(CallsOf(calls[c].role, calls[c].endpoint)) = 1
  /\ findings # <<>> => pc = "done"
  /\ pc \in {"compare", "done"} =>
       /\ Len(results) = Len(endpoints_by_name)
       /\ \A e \in 1..Len(endpoints_by_name) : \A r \in 1..Len(tokens) :
            LET endpoint_name == endpoints_by_name[e].key
                role == tokens[r].key
            IN /\ Cardinality(CallsOf(role, endpoint_name)) = 1
               /\ HasKey(results, endpoint_name)
               /\ Keys(Get(results, endpoint_name)) = Keys(tokens)
               /\ \A c \in CallsOf(role, endpoint_name) :
                    Get(Get(results, endpoint_name), role) = calls[c].status

\* Two endpoints and two roles, none declared by the matrix, have been
\* probed and compare_roles is about to run.
C10_Witness ==
  /\ pc = "compare"
  /\ Len(endpoints_by_name) = 2
  /\ Len(tokens) = 2
  /\ ~HasKey(tokens, "admin")
  /\ Len(calls) = 4

\* ------------------------------------- claims about the order and the totals
\* The position of a key in a dict.
Position(d, k) == CHOOSE i \in 1..Len(d) : d[i].key = k

\* C11 as stated: the mismatches are ordered by the insertion order of the
\* matrix: by the position of their role among the roles of the matrix and,
\* within a role, by the position of their endpoint among the endpoints the
\* matrix declares for the role.
C11_MatrixOrder ==
  \A i, j \in 1..Len(mismatches) :
    i < j =>
      LET a == mismatches[i]
          b == mismatches[j]
      IN IF a.role = b.role
           THEN Position(Get(matrix, a.role), a.endpoint)
                  < Position(Get(matrix, b.role), b.endpoint)
           ELSE Position(matrix, a.role) < Position(matrix, b.role)

\* C11 amended: the mismatches are ordered by the position of their role in
\* the credential set and, within a role, by the position of their endpoint
\* among the endpoints the matrix declares for the role.
C11_CredentialThenMatrixOrder ==
  \A i, j \in 1..Len(mismatches) :
    i < j =>
      LET a == mismatches[i]
          b == mismatches[j]
      IN IF a.role = b.role
           THEN Position(Get(matrix, a.role), a.endpoint)
                  < Position(Get(matrix, b.role), b.endpoint)
           ELSE Position(tokens, a.role) < Position(tokens, b.role)

\* Three mismatches of two roles that the matrix declares in the opposite
\* order of the credential set, two of them of one role.
C11_Witness ==
  /\ pc = "done"
  /\ Len(mismatches) = 3
  /\ mismatches[1].role # mismatches[3].role
  /\ Position(matrix, mismatches[1].role) > Position(matrix, mismatches[3].role)

\* The (role, endpoint) pairs jointly present in credentials, matrix and
\* catalog.
JointPairs ==
  {p \in CheckRoleNames \X CheckEndpointNames : JointlyPresent(p[1], p[2])}

\* The matrix declares the endpoint for roles without a credential only.
DeclaredOnlyWithoutCredential(endpoint_name) ==
  /\ endpoint_name \in endpoints_in_matrix
  /\ \A k \in 1..Len(matrix) :
       HasKey(matrix[k].val, endpoint_name) => ~HasKey(tokens, matrix[k].key)

\* C12: a role of the matrix that has no credential is never probed, is not
\* counted among the tested roles, its pairs are not counted among the total
\* checks, and an endpoint declared only for such roles is not counted among
\* the tested endpoints.
C12_NoCredentialNoTotals ==
  pc = "done" =>
    /\ \A k \in 1..Len(matrix) :
         ~HasKey(tokens, matrix[k].key) =>
           /\ \A c \in 1..Len(calls) : calls[c].role # matrix[k].key
           /\ matrix[k].key \notin roles_in_matrix
    /\ total_checks = Cardinality(JointPairs)
    /\ \A endpoint_name \in CheckEndpointNames :
         DeclaredOnlyWithoutCredential(endpoint_name) =>
           endpoint_name \notin endpoints_tested

\* C13: the total-checks counter equals the number of call_api invocations
\* run_checks has made when it returns, which is the number of pairs jointly
\* present in credentials, matrix and catalog; the mismatches never
\* outnumber the invocations made so far, nor these the counter.
C13_TotalChecksCountsProbes ==
  /\ Len(mismatches) <= Len(calls)
  /\ Len(calls) <= total_checks
  /\ pc = "done" =>
       /\ total_checks = Len(calls)
       /\ Len(calls) = Cardinality(JointPairs)

\* Two probes were made and one of them mismatched, while the matrix also
\* declares a pair for a role without credential.
C13_Witness ==
  /\ pc = "done"
  /\ Len(calls) = 2
  /\ Len(mismatches) = 1
  /\ \E k \in 1..Len(matrix) :
       ~HasKey(tokens, matrix[k].key) /\ Len(matrix[k].val) > 0

====
